---- MODULE Spec2Model ----
(***************************************************************************)
(* A model of the MHC class-I binding predictor notebook                   *)
(* (src/epitope/mhci_lesson.ipynb): the four peptide encoders, the         *)
(* binarized AUC score on the log50k and the IC50 scale, the training and  *)
(* evaluation routines built on them (build_predictor, test_predictor),    *)
(* the saving of models (train_models) and the comparison of predictors    *)
(* (evaluate_predictor, run_tests).                                        *)
(*                                                                         *)
(* A peptide is a sequence of one-character strings.  A pandas DataFrame   *)
(* is a record [columns, values]: the column labels in order, and the      *)
(* rows, each a sequence of cells in column order.  A call's outcome is a  *)
(* record [exc, val]: exc is "none" when the call returned val, and the    *)
(* name of the exception that left the function otherwise.                 *)
(***************************************************************************)
EXTENDS Integers, Sequences, FiniteSets, TLC

\* ------------------------------------------------------------------ bounds

\* Longest peptide drawn as the peptide under test.
MaxLen == 2

\* The letters peptides under test are drawn from: the first and the last of
\* the alphabet, a letter outside it that sorts inside its range ("X", also a
\* BLOSUM62 column), and the separator of get_dummies.
Letters == {"A", "Y", "X", ","}

\* ------------------------------------------------------- python primitives

Range(s) == {s[i] : i \in 1..Len(s)}

Upper ==
    <<"A", "B", "C", "D", "E", "F", "G", "H", "I", "J", "K", "L", "M",
      "N", "O", "P", "Q", "R", "S", "T", "U", "V", "W", "X", "Y", "Z">>

Chars == Range(Upper) \cup {",", "*"}

OrdTable ==
    [c \in Chars |->
        IF c = "*" THEN 42
        ELSE IF c = "," THEN 44
        ELSE 64 + (CHOOSE i \in 1..Len(Upper) : Upper[i] = c)]

\* Python's ord(): the code point that orders one-character labels.
ord(c) == OrdTable[c]

\* The characters in the order of their code points.
ByCodePoint == <<"*", ",">> \o Upper

\* sorted(S) for a set of one-character labels.
Sorted(S) == SelectSeq(ByCodePoint, LAMBDA c : c \in S)

\* A sequence given by a rule, written out element by element.
Listed(s) == s \o <<>>

Reverse(s) == [k \in 1..Len(s) |-> s[Len(s) + 1 - k]]

\* list(set): the iteration order of a set is not fixed by the language; two
\* orders stand for the ones an interpreter may produce.
SetOrders(S) == {Sorted(S), Reverse(Sorted(S))}

Returned(v) == [exc |-> "none", val |-> v]

Raised(e) == [exc |-> e, val |-> <<>>]

\* ------------------------------------------------------- lookup resources

\* codes: the 20-letter amino-acid alphabet, in the order the notebook lists it.
CodesList ==
    <<"A", "C", "D", "E", "F", "G", "H", "I", "K", "L",
      "M", "N", "P", "Q", "R", "S", "T", "V", "W", "Y">>

\* pep: the notebook's sample peptide, a module-level global.
SamplePep == <<"A", "L", "D", "F", "E", "Q", "E", "M", "T">>

\* NLF.csv read with index_col=0: one column per amino acid, one row per
\* transformed feature.
NlfFeatures == 19

\* A cell of a lookup table stands for itself: the value is the cell's place
\* (column letter, row), so that two vectors agree only if they were read from
\* the same cells in the same order.
Cell(c, r) == 100 * ord(c) + r

NlfTable == [c \in Range(CodesList) |-> [r \in 1..NlfFeatures |-> Cell(c, r)]]

\* ep.blosum62: the BLOSUM62 matrix, 20 amino acids followed by B, Z, X and *.
BlosumKeys ==
    <<"A", "R", "N", "D", "C", "Q", "E", "G", "H", "I", "L", "K",
      "M", "F", "P", "S", "T", "W", "Y", "V", "B", "Z", "X", "*">>

\* The matrix comes from the epitopepredict package; its 24 rows are the ones
\* that leave the data model's 20 features per position after the trim.
BlosumRows == 24

\* x.iloc[:,:-4]: the number of trailing columns blosum_encode drops.
BlosumTrim == 4

BlosumTable == [c \in Range(BlosumKeys) |-> [r \in 1..BlosumRows |-> Cell(c, r)]]

\* ------------------------------------------------------------- DataFrames
\* A frame is [columns, values]: the column labels in order, and the rows, each
\* a sequence of cells in column order.

\* pd.DataFrame(np.zeros((n, len(o)), dtype=int), columns=o)
Zeros(n, o) ==
    LET row == Listed([k \in 1..Len(o) |-> 0])
    IN  [columns |-> o, values |-> Listed([i \in 1..n |-> row])]

\* s[0].str.get_dummies(sep): each row is split at sep, the empty pieces are
\* dropped, and there is one 0/1 column per distinct piece, the columns sorted.
get_dummies(s, sep) ==
    LET Tags(i) == IF s[i] = sep THEN {} ELSE {s[i]}
        cols == Sorted(UNION {Tags(i) : i \in 1..Len(s)})
        Row(i) == Listed([k \in 1..Len(cols) |-> IF cols[k] \in Tags(i) THEN 1 ELSE 0])
    IN  [columns |-> cols, values |-> Listed([i \in 1..Len(s) |-> Row(i)])]

\* a.join(x): x's columns after a's, row by row (the two share no label).
Join(a, x) ==
    [columns |-> a.columns \o x.columns,
     values |-> Listed([i \in 1..Len(a.values) |-> a.values[i] \o x.values[i]])]

\* a.sort_index(axis=1): the columns in the order of their labels, each cell
\* staying under its label.
sort_index(a) ==
    LET cols == Sorted(Range(a.columns))
        at == Listed([k \in 1..Len(cols) |->
                        CHOOSE j \in 1..Len(a.columns) : a.columns[j] = cols[k]])
    IN  [columns |-> cols,
         values |-> Listed([i \in 1..Len(a.values) |->
                              Listed([k \in 1..Len(cols) |-> a.values[i][at[k]]])])]

\* a.values.flatten(): the cells row by row.
RECURSIVE Flatten(_)
Flatten(rows) ==
    IF rows = <<>> THEN <<>> ELSE Head(rows) \o Flatten(Tail(rows))

\* --------------------------------------------------------------- encoders

\* one_hot_encode with sort_index left out: the columns stay in join order.
one_hot_encode_unsorted(seq, o) ==
    IF seq = <<>> THEN Raised("KeyError")
    ELSE Returned(Flatten(Join(get_dummies(seq, ","), Zeros(Len(seq), o)).values))

\* one_hot_encode(seq); o is the order list(set(codes) - set(seq)) came out in.
\* s[0] of a frame built from an empty list raises KeyError.
one_hot_encode(seq, o) ==
    IF seq = <<>> THEN Raised("KeyError")
    ELSE LET x == Zeros(Len(seq), o)
             a == get_dummies(seq, ",")
         IN  Returned(Flatten(sort_index(Join(a, x)).values))

\* pd.DataFrame([table[i] for i in seq]) flattened: the first `width` entries of
\* the table's column for each letter of seq, letter after letter.
LookupRows(table, seq, width) ==
    Flatten(Listed([i \in 1..Len(seq) |-> SubSeq(table[seq[i]], 1, width)]))

\* nlf_encode(seq, table): table[i] raises KeyError for a letter that is no
\* column of the table.
nlf_encode(seq, table) ==
    IF \E i \in 1..Len(seq) : seq[i] \notin DOMAIN table
    THEN Raised("KeyError")
    ELSE Returned(LookupRows(table, seq, NlfFeatures))

\* blosum_encode(seq, table): as nlf_encode, then x.iloc[:,:-4].
blosum_encode(seq, table) ==
    IF \E i \in 1..Len(seq) : seq[i] \notin DOMAIN table
    THEN Raised("KeyError")
    ELSE Returned(LookupRows(table, seq, BlosumRows - BlosumTrim))

\* np.random.randint(20): the exclusive upper end of the draw.
RandRange == 20

\* The global generator of np.random, reduced to a full-period congruential
\* generator over four states: the next state, and the draw it yields.
RngNext(s) == (5 * s + 3) % 4

randint(n, s) == (7 * RngNext(s)) % n

\* k successive draws from generator state s: the values and the state left.
RECURSIVE Draws(_, _)
Draws(k, s) ==
    IF k = 0 THEN [val |-> <<>>, rng |-> s]
    ELSE LET rest == Draws(k - 1, RngNext(s))
         IN  [val |-> <<randint(RandRange, s)>> \o rest.val, rng |-> rest.rng]

\* random_encode(p): one draw per element of the global pep, not of p.
\* Returns the outcome and the generator state it leaves.
random_encode(p, pepGlobal, s) ==
    LET d == Draws(Len(pepGlobal), s)
    IN  [out |-> Returned(d.val), rng |-> d.rng]

\* -------------------------------------------------------------- auc_score
\* log50k values are counted in thousandths (0.426 is 426).  A float result is
\* a record [nan, num, den]: not-a-number, or the fraction num/den in lowest
\* terms.

\* auc_score's default cutoff, and the one test_predictor passes.
Cutoff == 426

RECURSIVE GCD(_, _)
GCD(a, b) == IF b = 0 THEN a ELSE GCD(b, a % b)

Frac(n, d) == LET g == GCD(n, d) IN [nan |-> FALSE, num |-> n \div g, den |-> d \div g]

NaN == [nan |-> TRUE, num |-> 0, den |-> 1]

\* (v<=cutoff).astype(int)
Binarize(v, cutoff) == Listed([i \in 1..Len(v) |-> IF v[i] <= cutoff THEN 1 ELSE 0])

\* The distinct values of a set of numbers, largest first.
RECURSIVE Descending(_)
Descending(S) ==
    IF S = {} THEN <<>>
    ELSE LET top == CHOOSE v \in S : \A w \in S : w <= v
         IN  <<top>> \o Descending(S \ {top})

\* metrics.roc_curve(y_true, y_score, pos_label=1): one point per distinct
\* score, largest first, after the point (0, 0): the counts of negatives (fps)
\* and of positives (tps) scored at or above it.  fpr = fps/neg and
\* tpr = tps/pos; a class with no sample makes its rate not-a-number.
roc_curve(y_true, y_score) ==
    LET thr == Descending(Range(y_score))
        idx == 1..Len(y_true)
        tps(k) == Cardinality({i \in idx : y_true[i] = 1 /\ y_score[i] >= thr[k]})
        fps(k) == Cardinality({i \in idx : y_true[i] # 1 /\ y_score[i] >= thr[k]})
    IN  [fps |-> <<0>> \o Listed([k \in 1..Len(thr) |-> fps(k)]),
         tps |-> <<0>> \o Listed([k \in 1..Len(thr) |-> tps(k)]),
         neg |-> Cardinality({i \in idx : y_true[i] # 1}),
         pos |-> Cardinality({i \in idx : y_true[i] = 1})]

\* The trapezoid sum of a curve given by counts, times 2 * neg * pos.
RECURSIVE Trapezoids(_, _, _)
Trapezoids(fps, tps, k) ==
    IF k < 2 THEN 0
    ELSE (fps[k] - fps[k - 1]) * (tps[k] + tps[k - 1]) + Trapezoids(fps, tps, k - 1)

\* metrics.auc(fpr, tpr): np.trapz of the curve; a not-a-number rate passes
\* the monotonicity check (no comparison with it is true) and makes the area
\* not-a-number.
auc(roc) ==
    IF Len(roc.fps) < 2 THEN Raised("ValueError")
    ELSE IF roc.neg = 0 \/ roc.pos = 0 THEN Returned(NaN)
    ELSE Returned(Frac(Trapezoids(roc.fps, roc.tps, Len(roc.fps)), 2 * roc.neg * roc.pos))

\* auc_score(true, sc, cutoff)
auc_score(true, sc, cutoff) ==
    LET t == Binarize(true, cutoff)
        s == Binarize(sc, cutoff)
    IN  auc(roc_curve(t, s))

\* np.mean(res) for a list of float results.
RECURSIVE SumFrac(_)
SumFrac(res) ==
    IF res = <<>> THEN Frac(0, 1)
    ELSE LET h == Head(res)
             t == SumFrac(Tail(res))
         IN  Frac(h.num * t.den + t.num * h.den, h.den * t.den)

mean(res) ==
    IF \E k \in 1..Len(res) : res[k].nan THEN NaN
    ELSE LET total == SumFrac(res) IN Frac(total.num, total.den * Len(res))

\* ------------------------------------------------- encoding a table, fitting

\* encoder(x) for the encoder passed by reference; build_predictor replaces
\* None by nlf_encode.  The outcome, and the generator state the call leaves.
Encode(encoder, x, alphabet, nlfTable, blosumTable, pepGlobal, s) ==
    CASE encoder = "one_hot_encode" ->
            [out |-> one_hot_encode(x, Sorted(Range(alphabet) \ Range(x))), rng |-> s]
      [] encoder = "nlf_encode" -> [out |-> nlf_encode(x, nlfTable), rng |-> s]
      [] encoder = "blosum_encode" -> [out |-> blosum_encode(x, blosumTable), rng |-> s]
      [] encoder = "random_encode" -> random_encode(x, pepGlobal, s)

\* X = peptide.apply(lambda x: pd.Series(encoder(x)),1) for the rows lo..hi, in
\* table order, from generator state s: the first exception an encoder raises
\* leaves apply, and no row is kept.  tab = [alphabet, nlf, blosum, pep] are
\* the module-level tables.  (The range is halved rather than peeled so that
\* the evaluation stays shallow; the rows are still encoded first to last.)
RECURSIVE EncodeRange(_, _, _, _, _, _)
EncodeRange(encoder, peptides, lo, hi, tab, s) ==
    IF lo > hi THEN [exc |-> "none", X |-> <<>>, rng |-> s]
    ELSE IF lo = hi
    THEN LET e == Encode(encoder, peptides[lo], tab.alphabet, tab.nlf, tab.blosum, tab.pep, s)
         IN  [exc |-> e.out.exc,
              X |-> IF e.out.exc = "none" THEN <<e.out.val>> ELSE <<>>,
              rng |-> e.rng]
    ELSE LET mid == (lo + hi) \div 2
             left == EncodeRange(encoder, peptides, lo, mid, tab, s)
         IN  IF left.exc # "none" THEN left
             ELSE LET right == EncodeRange(encoder, peptides, mid + 1, hi, tab, left.rng)
                  IN  IF right.exc # "none" THEN right
                      ELSE [exc |-> "none", X |-> left.X \o right.X, rng |-> right.rng]

apply(encoder, peptides, tab, s) == EncodeRange(encoder, peptides, 1, Len(peptides), tab, s)

\* Rows of unequal length are padded with NaN when apply builds the frame.
Ragged(X) == \E i \in 1..Len(X) : Len(X[i]) # Len(X[1])

\* reg.fit(X, y) for the rows `rows` of X: MLPRegressor rejects an empty
\* frame and a frame with NaN cells; the fitted model is known by what it was
\* fitted on.
fit(X, rows) ==
    IF rows = {} \/ Ragged(X) THEN Raised("ValueError")
    ELSE Returned([fitted |-> TRUE, n_samples |-> Cardinality(rows),
                   n_features |-> Len(X[CHOOSE i \in rows : TRUE])])

\* Python's None where a model is expected: no model.
None == [fitted |-> FALSE, n_samples |-> 0, n_features |-> 0]

\* The minimum number of records build_predictor fits a model on.
MinSamples == 100

\* build_predictor(allele, encoder, length), data being what
\* ep.get_training_set(allele, length) returns.  The outcome (None for the
\* bare return), and the generator state left.
build_predictor(data, encoder, tab, s) ==
    LET enc == IF encoder = "None" THEN "nlf_encode" ELSE encoder
    IN  IF Len(data) < MinSamples THEN [out |-> Returned(None), rng |-> s]
        ELSE LET e == apply(enc, [i \in 1..Len(data) |-> data[i].peptide], tab, s)
             IN  IF e.exc # "none" THEN [out |-> Raised(e.exc), rng |-> e.rng]
                 ELSE [out |-> fit(e.X, 1..Len(data)), rng |-> e.rng]

\* --------------------------------------------------------- test_predictor

\* for i in range(3): the number of train/test partitions test_predictor draws.
Repeats == 3

\* train_test_split(X, y, test_size=0.3): the size of the test part of n
\* records, ceil(0.3 * n); the rest is the train part.
TestSize(n) == (3 * n + 9) \div 10

\* MLPRegressor(...) with warm_start=True added to the arguments.
MLPRegressor_warm ==
    [hidden_layer_sizes |-> <<1>>, max_iter |-> 1500, activation |-> "logistic",
     solver |-> "lbfgs", random_state |-> 2, warm_start |-> TRUE, coefs |-> <<>>]

\* reg = MLPRegressor(hidden_layer_sizes=(1,), alpha=0.0005, max_iter=1500,
\* activation='logistic', solver='lbfgs', random_state=2): a new instance, not
\* fitted; warm_start is left at its default.  coefs stands for the fitted
\* weights: the fits that have shaped them since they were last initialised
\* from random_state, each known by what it was fitted on.
MLPRegressor ==
    [hidden_layer_sizes |-> <<1>>, max_iter |-> 1500, activation |-> "logistic",
     solver |-> "lbfgs", random_state |-> 2, warm_start |-> FALSE, coefs |-> <<>>]

\* The instance after reg.fit(X_train, y_train) on the rows `rows`: fit
\* initialises the weights anew from random_state unless warm_start is set
\* and the instance has weights already; a fit that raises leaves it as it was.
reg_fit(this, X, rows) ==
    LET f == fit(X, rows)
    IN  IF f.exc # "none" THEN this
        ELSE [this EXCEPT !.coefs = IF this.warm_start THEN Append(@, f.val) ELSE <<f.val>>]

\* The elements of a set of row numbers, in row order.
Ascending(S, n) == SelectSeq(Listed([i \in 1..n |-> i]), LAMBDA i : i \in S)

\* One pass of the loop body for the test rows `test` and a fitted model
\* whose predict gives predict[row] for a feature row: the outcome of
\* auc_score on the held-out part, or the exception that ends test_predictor.
repeat(X, y, test, predict) ==
    LET n == Len(X)
        train == (1..n) \ test
        rows == Ascending(test, n)
        y_test == Listed([k \in 1..Len(rows) |-> y[rows[k]]])
        fitted == IF train = {} THEN Raised("ValueError") ELSE fit(X, train)
        scores == Listed([k \in 1..Len(rows) |-> predict[X[rows[k]]]])
    IN  IF fitted.exc # "none" THEN [y_test |-> y_test, out |-> fitted]
        ELSE [y_test |-> y_test, out |-> auc_score(y_test, scores, Cutoff)]

\* ------------------------------------------------------------------ state

VARIABLES
    codes,      \* the alphabet (module-level list)
    nlf,        \* the NLF table (module-level frame)
    blosum,     \* the BLOSUM62 matrix (module-level frame)
    pep,        \* the sample peptide (module-level string)
    rng,        \* state of np.random's global generator
    seq,        \* the peptide under test
    call,       \* the last encoder call: fn, arg, repeat, exc, val
    seen,       \* per encoder, the outcome of its first call on seq
    true,       \* auc_score: the measured values passed
    sc,         \* auc_score: the predicted values passed
    r,          \* auc_score: the outcome of the call
    data,       \* build_predictor: the training table of the allele
    encoder,    \* build_predictor, test_predictor: the encoder passed
    reg,        \* build_predictor: the outcome of the call
    df,         \* test_predictor: the training table of the allele
    tp,         \* test_predictor: where it stands (pc) and its locals
    tables,     \* train_models: the training table of each allele
    models,     \* the files of the models directory, by file name
    tm,         \* train_models: where it stands (pc) and its locals
    rt,         \* run_tests: where it stands (pc) and its locals
    ev          \* the records scored on both affinity scales, and the results

vars == <<codes, nlf, blosum, pep, rng, seq, call, seen, true, sc, r,
          data, encoder, reg, df, tp, tables, models, tm, rt, ev>>

globals == <<codes, nlf, blosum, pep, rng>>

encVars == <<seq, call, seen>>

aucVars == <<true, sc, r>>

trainVars == <<data, encoder, reg>>

evalVars == <<df, tp>>

storeVars == <<tables, models, tm>>

runVars == <<rt>>

scaleVars == <<ev>>

\* The module-level tables an encoder reads.
Tables == [alphabet |-> codes, nlf |-> nlf, blosum |-> blosum, pep |-> pep]

NotCalled == [exc |-> "not called", val |-> <<>>]

\* The module-level state after the notebook's cells have run.
InitGlobals ==
    /\ codes = CodesList
    /\ nlf = NlfTable
    /\ blosum = BlosumTable
    /\ pep = SamplePep

EncIdle == seq = <<>> /\ call = NotCalled /\ seen = <<>>

AucIdle == true = <<>> /\ sc = <<>> /\ r = NotCalled

TrainIdle == data = <<>> /\ encoder = "None" /\ reg = NotCalled

EvalIdle == df = <<>> /\ tp = [pc |-> "idle"]

StoreIdle == tables = <<>> /\ models = <<>> /\ tm = [pc |-> "idle"]

RunIdle == rt = [pc |-> "idle"]

ScaleIdle == ev = [pc |-> "idle"]

RealEncoders == {"one_hot_encode", "nlf_encode", "blosum_encode"}

Encoders == RealEncoders \cup {"random_encode"}

\* Peptides under test: every string of 1..MaxLen letters.
Peptides == UNION {[1..n -> Letters] : n \in 1..MaxLen}

NoCall == [fn |-> "none", arg |-> <<>>, repeat |-> FALSE, exc |-> "none", val |-> <<>>]

NotSeen == [exc |-> "unseen", val |-> <<>>]

InitEnc ==
    /\ InitGlobals
    /\ rng \in 0..3
    /\ seq \in Peptides
    /\ call = NoCall
    /\ seen = [e \in RealEncoders |-> NotSeen]
    /\ AucIdle
    /\ TrainIdle
    /\ EvalIdle
    /\ StoreIdle
    /\ RunIdle
    /\ ScaleIdle

\* What an encoder call leaves behind: the call itself, and its outcome as the
\* first one seen for this encoder when it is the first on seq.
Record(fn, p, out) ==
    /\ call' = [fn |-> fn, arg |-> p,
                repeat |-> (fn \in RealEncoders /\ p = seq /\ seen[fn] # NotSeen),
                exc |-> out.exc, val |-> out.val]
    /\ seen' = IF fn \in RealEncoders /\ p = seq /\ seen[fn] = NotSeen
               THEN [seen EXCEPT ![fn] = out]
               ELSE seen

\* e = one_hot_encode(p)
OneHotCall ==
    \E p \in {seq, pep} :
        \E o \in SetOrders(Range(codes) \ Range(p)) :
            /\ Record("one_hot_encode", p, one_hot_encode(p, o))
            /\ UNCHANGED <<codes, nlf, blosum, pep, rng, seq, aucVars, trainVars, evalVars, storeVars, runVars, scaleVars>>

\* e = nlf_encode(p)
NlfCall ==
    \E p \in {seq, pep} :
        /\ Record("nlf_encode", p, nlf_encode(p, nlf))
        /\ UNCHANGED <<codes, nlf, blosum, pep, rng, seq, aucVars, trainVars, evalVars, storeVars, runVars, scaleVars>>

\* blosum_encode with the trim applied to the module-level matrix instead of
\* the local frame x.
BlosumCallInPlace ==
    \E p \in {seq, pep} :
        LET keep(col) == IF Len(col) > BlosumTrim THEN Len(col) - BlosumTrim ELSE Len(col)
            trimmed == [c \in DOMAIN blosum |-> SubSeq(blosum[c], 1, keep(blosum[c]))]
        IN  /\ Record("blosum_encode", p,
                      IF \E i \in 1..Len(p) : p[i] \notin DOMAIN trimmed
                      THEN Raised("KeyError")
                      ELSE Returned(LookupRows(trimmed, p, Len(trimmed["A"]))))
            /\ blosum' = trimmed
            /\ UNCHANGED <<codes, nlf, pep, rng, seq, aucVars, trainVars, evalVars, storeVars, runVars, scaleVars>>

\* e = blosum_encode(p)
BlosumCall ==
    \E p \in {seq, pep} :
        /\ Record("blosum_encode", p, blosum_encode(p, blosum))
        /\ UNCHANGED <<codes, nlf, blosum, pep, rng, seq, aucVars, trainVars, evalVars, storeVars, runVars, scaleVars>>

\* e = random_encode(p)
RandomCall ==
    \E p \in {seq, pep} :
        LET e == random_encode(p, pep, rng)
        IN  /\ Record("random_encode", p, e.out)
            /\ rng' = e.rng
            /\ UNCHANGED <<codes, nlf, blosum, pep, seq, aucVars, trainVars, evalVars, storeVars, runVars, scaleVars>>

NextEnc == OneHotCall \/ NlfCall \/ BlosumCall \/ RandomCall

SpecEnc == InitEnc /\ [][NextEnc]_vars

\* ------------------------------------------------- auc_score on given arrays

\* Bound on the number of records passed to auc_score.
MaxRecs == 3

\* Measured values: below, at and above the cutoff.
TrueVals == {200, 426, 600}

\* Predicted values: two below the cutoff, the cutoff, one above.
ScoreVals == {100, 300, 426, 700}

InitAuc ==
    /\ InitGlobals
    /\ rng = 0
    /\ EncIdle
    /\ \E n \in 1..MaxRecs :
          /\ true \in [1..n -> TrueVals]
          /\ sc \in [1..n -> ScoreVals]
    /\ r = NotCalled
    /\ TrainIdle
    /\ EvalIdle
    /\ StoreIdle
    /\ RunIdle
    /\ ScaleIdle

\* auc = auc_score(true, sc, cutoff=.426)
AucScoreCall ==
    /\ r = NotCalled
    /\ r' = auc_score(true, sc, Cutoff)
    /\ UNCHANGED <<globals, encVars, true, sc, trainVars, evalVars, storeVars, runVars, scaleVars>>

NextAuc == AucScoreCall

SpecAuc == InitAuc /\ [][NextAuc]_vars

\* ------------------------------------------------------- build_predictor

\* Bound on how far below and above MinSamples the table sizes go.
Slack == 2

\* A training record of the length-2 tables: a peptide over the alphabet.
GoodRecord == [peptide |-> <<"A", "Y">>, log50k |-> 200]

\* A record whose peptide has a letter outside the alphabet.
BadRecord == [peptide |-> <<"A", "X">>, log50k |-> 600]

\* The table of n records with the bad record at position bad (0: nowhere).
Table(n, bad) == [i \in 1..n |-> IF i = bad THEN BadRecord ELSE GoodRecord]

InitTrain ==
    /\ InitGlobals
    /\ rng \in 0..3
    /\ EncIdle
    /\ AucIdle
    /\ \E n \in (MinSamples - Slack)..(MinSamples + Slack) :
          \E bad \in {0, 1, n} : data = Table(n, bad)
    /\ encoder \in Encoders \cup {"None"}
    /\ reg = NotCalled
    /\ EvalIdle
    /\ StoreIdle
    /\ RunIdle
    /\ ScaleIdle

\* reg = build_predictor(allele, encoder, 9)
BuildPredictorCall ==
    /\ reg = NotCalled
    /\ LET b == build_predictor(data, encoder, Tables, rng)
       IN  reg' = b.out /\ rng' = b.rng
    /\ UNCHANGED <<codes, nlf, blosum, pep, encVars, aucVars, data, encoder, evalVars, storeVars, runVars, scaleVars>>

NextTrain == BuildPredictorCall

SpecTrain == InitTrain /\ [][NextTrain]_vars

\* -------------------------------------------------------- test_predictor

\* Bound on the number of records of the table test_predictor is run on.
MaxRows == 4

\* Values a fitted model predicts: one below the cutoff, one above.
PredVals == {300, 600}

\* The table of n records with distinct peptides over the alphabet, the
\* measured values y, and the bad record's peptide at position bad (0: nowhere).
EvalTable(n, y, bad) ==
    [i \in 1..n |->
        [peptide |-> IF i = bad THEN BadRecord.peptide
                     ELSE <<CodesList[i], CodesList[i + 1]>>,
         log50k |-> y[i]]]

InitEval ==
    /\ InitGlobals
    /\ rng = 0
    /\ EncIdle
    /\ AucIdle
    /\ data = <<>>
    /\ reg = NotCalled
    /\ encoder \in Encoders
    /\ \E n \in 1..MaxRows :
          \E y \in [1..n -> {200, 600}], bad \in {0, 1} : df = EvalTable(n, y, bad)
    /\ tp = [pc |-> "start", exc |-> "none", reg |-> MLPRegressor, X |-> <<>>,
             res |-> <<>>, y_test |-> <<>>, auc |-> NaN]
    /\ StoreIdle
    /\ RunIdle
    /\ ScaleIdle

\* test_predictor up to the loop: the table is encoded.
TestEncode ==
    /\ tp.pc = "start"
    /\ LET e == apply(encoder, [i \in 1..Len(df) |-> df[i].peptide], Tables, rng)
       IN  /\ rng' = e.rng
           /\ tp' = IF e.exc # "none"
                    THEN [tp EXCEPT !.pc = "raised", !.exc = e.exc]
                    ELSE [tp EXCEPT !.pc = "loop", !.X = e.X]
    /\ UNCHANGED <<codes, nlf, blosum, pep, encVars, aucVars, trainVars, df, storeVars, runVars, scaleVars>>

\* One pass of the loop: a random partition, a fit of reg on the train part,
\* the predictions of reg as just fitted for the test part, their auc appended
\* to res.
TestRepeat ==
    /\ tp.pc = "loop"
    /\ Len(tp.res) < Repeats
    /\ \E test \in {S \in SUBSET (1..Len(df)) : Cardinality(S) = TestSize(Len(df))} :
          \E predict \in [{tp.X[i] : i \in test} -> PredVals] :
              LET y == [i \in 1..Len(df) |-> df[i].log50k]
                  train == (1..Len(df)) \ test
                  pass == repeat(tp.X, y, test, predict)
              IN  tp' = IF pass.out.exc # "none"
                        THEN [tp EXCEPT !.pc = "raised", !.exc = pass.out.exc,
                                        !.reg = reg_fit(@, tp.X, train),
                                        !.y_test = pass.y_test]
                        ELSE [tp EXCEPT !.res = Append(@, pass.out.val),
                                        !.reg = reg_fit(@, tp.X, train),
                                        !.y_test = pass.y_test]
    /\ UNCHANGED <<globals, encVars, aucVars, trainVars, df, storeVars, runVars, scaleVars>>

\* auc = np.mean(res); return auc
TestMean ==
    /\ tp.pc = "loop"
    /\ Len(tp.res) = Repeats
    /\ tp' = [tp EXCEPT !.pc = "done", !.auc = mean(tp.res)]
    /\ UNCHANGED <<globals, encVars, aucVars, trainVars, df, storeVars, runVars, scaleVars>>

NextEval == TestEncode \/ TestRepeat \/ TestMean

SpecEval == InitEval /\ [][NextEval]_vars

\* ---------------------------------------------------------- train_models
\* A file of the models directory is a record [exists, model, size]: the
\* object being pickled into it, and the number of pieces of the pickle
\* written so far.  A stored model is the regressor and what it was built for:
\* [allele, length, encoder, reg].

\* alleles=['HLA-A*02:01','HLA-A*02:02']
Alleles == <<"HLA-A*02:01", "HLA-A*02:02">>

\* path = 'models'
ModelsPath == "models"

\* The length train_models passes to build_predictor.
TrainLength == 9

\* The encoder train_models passes to build_predictor.
TrainEncoder == "blosum_encode"

\* Bound on the number of writes joblib.dump takes to put a pickle on disk.
DumpWrites == 2

\* fname with the allele left out of the file name.
fname_shared(path, a) == path \o "/" \o "model" \o ".joblib"

\* fname = os.path.join(path, a+'.joblib')
fname(path, a) == path \o "/" \o a \o ".joblib"

FileNames == {fname(ModelsPath, Alleles[i]) : i \in 1..Len(Alleles)}

FileAbsent == [exists |-> FALSE, model |-> <<>>, size |-> 0]

\* The file is all there: every piece of the pickle has been written.
Complete(file) == file.exists /\ file.size = DumpWrites

\* What build_predictor(a, blosum_encode, 9) built, as an object to pickle.
Built(a, fitted) ==
    [allele |-> a, length |-> TrainLength, encoder |-> TrainEncoder, reg |-> fitted]

\* The file an earlier, finished run of train_models left for allele a.
Earlier(a) ==
    [exists |-> TRUE,
     model |-> Built(a, [fitted |-> TRUE, n_samples |-> MinSamples,
                         n_features |-> 2 * (BlosumRows - BlosumTrim)]),
     size |-> DumpWrites]

\* A record whose peptide has a letter that is no key of BLOSUM62.
ForeignRecord == [peptide |-> <<"A", "U">>, log50k |-> 600]

\* The table of n records with the foreign record at position at (0: nowhere).
ForeignTable(n, at) == [i \in 1..n |-> IF i = at THEN ForeignRecord ELSE GoodRecord]

\* The tables ep.get_training_set may return for an allele.
TrainTables ==
    {ForeignTable(n, at) : n \in (MinSamples - Slack)..(MinSamples + Slack), at \in {0, 1}}

InitStore ==
    /\ InitGlobals
    /\ rng = 0
    /\ EncIdle
    /\ AucIdle
    /\ TrainIdle
    /\ EvalIdle
    /\ tables \in [Range(Alleles) -> TrainTables]
    /\ models \in [FileNames -> {FileAbsent} \cup {Earlier(Alleles[i]) : i \in 1..Len(Alleles)}]
    /\ \A i \in 1..Len(Alleles) :
          LET f == models[fname(ModelsPath, Alleles[i])]
          IN  f.exists => fname(ModelsPath, f.model.allele) = fname(ModelsPath, Alleles[i])
    /\ tm = [pc |-> "loop", i |-> 1, fname |-> "", reg |-> None, exc |-> "none",
             saved |-> {[key |-> f, model |-> models[f].model, run |-> "earlier"] :
                           f \in {g \in FileNames : models[g].exists}}]
    /\ RunIdle
    /\ ScaleIdle

\* The head of the loop and its body up to the dump: fname is set, the
\* predictor is built; None goes on to the next allele, an exception leaves
\* train_models.
TrainBuild ==
    /\ tm.pc = "loop"
    /\ tm.i <= Len(Alleles)
    /\ LET a == Alleles[tm.i]
           b == build_predictor(tables[a], TrainEncoder, Tables, rng)
       IN  /\ rng' = b.rng
           /\ tm' = IF b.out.exc # "none"
                    THEN [tm EXCEPT !.pc = "raised", !.exc = b.out.exc,
                                    !.fname = fname(ModelsPath, a)]
                    ELSE IF b.out.val = None
                    THEN [tm EXCEPT !.i = @ + 1, !.fname = fname(ModelsPath, a), !.reg = None]
                    ELSE [tm EXCEPT !.pc = "built", !.fname = fname(ModelsPath, a),
                                    !.reg = b.out.val]
    /\ UNCHANGED <<codes, nlf, blosum, pep, encVars, aucVars, trainVars, evalVars,
                   tables, models, runVars, scaleVars>>

\* joblib.dump(reg, fname, protocol=2) opens fname itself for writing: the
\* file is created, or cut to nothing if it was there.
DumpOpen ==
    /\ tm.pc = "built"
    /\ models' = [models EXCEPT ![tm.fname] =
                     [exists |-> TRUE, model |-> Built(Alleles[tm.i], tm.reg), size |-> 0]]
    /\ tm' = [tm EXCEPT !.pc = "dump"]
    /\ UNCHANGED <<globals, encVars, aucVars, trainVars, evalVars, tables, runVars, scaleVars>>

\* One write of the pickle into the open file; after the last one the file is
\* closed and the loop goes on.
DumpWrite ==
    /\ tm.pc = "dump"
    /\ models[tm.fname].size < DumpWrites
    /\ models' = [models EXCEPT ![tm.fname].size = @ + 1]
    /\ tm' = IF models[tm.fname].size + 1 = DumpWrites
             THEN [tm EXCEPT !.pc = "loop", !.i = @ + 1,
                             !.saved = @ \cup {[key |-> tm.fname,
                                                model |-> models[tm.fname].model,
                                                run |-> "this"]}]
             ELSE tm
    /\ UNCHANGED <<globals, encVars, aucVars, trainVars, evalVars, tables, runVars, scaleVars>>

\* The loop is over: train_models returns.
TrainReturn ==
    /\ tm.pc = "loop"
    /\ tm.i > Len(Alleles)
    /\ tm' = [tm EXCEPT !.pc = "done"]
    /\ UNCHANGED <<globals, encVars, aucVars, trainVars, evalVars, tables, models,
                   runVars, scaleVars>>

\* The process dies while train_models runs; the files stay as they are.
Crash ==
    /\ tm.pc \in {"loop", "built", "dump"}
    /\ tm' = [tm EXCEPT !.pc = "crashed"]
    /\ UNCHANGED <<globals, encVars, aucVars, trainVars, evalVars, tables, models,
                   runVars, scaleVars>>

NextStore == TrainBuild \/ DumpOpen \/ DumpWrite \/ TrainReturn \/ Crash

SpecStore == InitStore /\ [][NextStore]_vars

\* ------------------------------------------- evaluate_predictor, run_tests
\* IC50 values are counted in nM.

\* auc_score(x.ic50, x.score, cutoff=500): the cutoff evaluate_predictor passes.
Ic50Cutoff == 500

\* Bound on the number of records of an evaluation set.
MaxEvalRows == 2

\* Bound on the number of alleles run_tests goes through.
MaxAlleles == 2

\* Measured IC50 values of an evaluation set: a binder and a non-binder.
EvalIc50 == {32, 20000}

\* The evaluation set of n records with distinct peptides and the values y.
EvalSet(n, y) ==
    [i \in 1..n |-> [peptide |-> <<CodesList[i], CodesList[i + 1]>>, ic50 |-> y[i]]]

\* data.merge(x, on='peptide'): the records of data that x has a score for,
\* with that score (x has one row per peptide).
merge(d, x) ==
    LET rows == SelectSeq(Listed([i \in 1..Len(d) |-> i]),
                          LAMBDA i : d[i].peptide \in DOMAIN x)
    IN  [ic50 |-> Listed([k \in 1..Len(rows) |-> d[rows[k]].ic50]),
         score |-> Listed([k \in 1..Len(rows) |-> x[d[rows[k]].peptide]])]

\* evaluate_predictor(P, allele), d being what get_evaluation_set2 returns and
\* scored the outcome of P.predict_peptides / P.get_scores: an exception, or
\* the predicted IC50 of each peptide.
evaluate_predictor(d, scored) ==
    IF scored.exc # "none" THEN Raised(scored.exc)
    ELSE LET x == merge(d, scored.val)
             a == auc_score(x.ic50, x.score, Ic50Cutoff)
         IN  IF a.exc # "none" THEN a
             ELSE Returned([auc |-> a.val, size |-> Len(d)])

\* preds: the predictors run_tests compares, by name.
Preds == <<"basicmhc1", "netmhcpan">>

\* omit = ['H-2-Kb']
Omit == {"H-2-Kb"}

\* Names mhclearn.get_allele_names() may list; test_alleles is a run of at
\* most MaxAlleles of them.
AlleleNames == <<"HLA-A*02:01", "H-2-Kb", "HLA-A*02:02", "HLA-A*03:01", "HLA-B*07:02">>

TestAlleles ==
    {SubSeq(AlleleNames, i, j) : i \in 1..Len(AlleleNames), j \in 1..Len(AlleleNames)}
        \cap UNION {[1..n -> Range(AlleleNames)] : n \in 1..MaxAlleles}

\* A local name that has not been assigned yet.
Unbound == [bound |-> FALSE, val |-> NaN]

NoLine == [shown |-> FALSE, P |-> "", a |-> "", auc |-> NaN]

InitRun ==
    /\ InitGlobals
    /\ rng = 0
    /\ EncIdle
    /\ AucIdle
    /\ TrainIdle
    /\ EvalIdle
    /\ StoreIdle
    /\ \E t \in TestAlleles :
          rt = [pc |-> "preds", test_alleles |-> t, p |-> 1, a |-> 1, auc |-> Unbound,
                m |-> <<>>, comp |-> <<>>, out |-> NoLine, own |-> <<>>, exc |-> "none"]
    /\ ScaleIdle

\* for P in preds: m=[]
RunPredictor ==
    /\ rt.pc = "preds"
    /\ rt.p <= Len(Preds)
    /\ rt' = [rt EXCEPT !.pc = "alleles", !.a = 1, !.m = <<>>, !.own = <<>>]
    /\ UNCHANGED <<globals, encVars, aucVars, trainVars, evalVars, storeVars, scaleVars>>

\* One pass of the inner loop for test_alleles[a]: the omit test, the try
\* block around evaluate_predictor, and print (P, a, auc) after it, which
\* raises UnboundLocalError while auc has never been assigned.  own keeps
\* what the calls made for this predictor came to.
RunAllele ==
    /\ rt.pc = "alleles"
    /\ rt.a <= Len(rt.test_alleles)
    /\ LET a == rt.test_alleles[rt.a]
       IN  IF a \in Omit
           THEN rt' = [rt EXCEPT !.a = @ + 1]
           ELSE \E n \in 0..MaxEvalRows :
                  \E y \in [1..n -> EvalIc50] :
                    LET d == EvalSet(n, y)
                        peps == {d[i].peptide : i \in 1..n}
                    IN  \E scored \in {Raised("Exception")}
                                      \cup {Returned(x) : x \in [peps -> EvalIc50]} :
                          LET e == evaluate_predictor(d, scored)
                              calls == Append(rt.own, [a |-> a, out |-> e])
                              local == IF e.exc = "none"
                                       THEN [bound |-> TRUE, val |-> e.val.auc]
                                       ELSE rt.auc
                              rows == IF e.exc = "none"
                                      THEN Append(rt.m, [allele |-> a, score |-> e.val.auc,
                                                         size |-> e.val.size])
                                      ELSE rt.m
                          IN  rt' = IF ~local.bound
                                    THEN [rt EXCEPT !.pc = "raised", !.own = calls,
                                                    !.exc = "UnboundLocalError"]
                                    ELSE [rt EXCEPT !.a = @ + 1, !.auc = local, !.m = rows,
                                                    !.own = calls,
                                                    !.out = [shown |-> TRUE,
                                                             P |-> Preds[rt.p], a |-> a,
                                                             auc |-> local.val]]
    /\ UNCHANGED <<globals, encVars, aucVars, trainVars, evalVars, storeVars, scaleVars>>

\* After the inner loop: m=pd.DataFrame(m,...); m['name'] = P.name;
\* comp.append(m)
RunCollect ==
    /\ rt.pc = "alleles"
    /\ rt.a > Len(rt.test_alleles)
    /\ rt' = [rt EXCEPT !.pc = "preds", !.p = @ + 1,
                        !.comp = Append(@, [name |-> Preds[rt.p], rows |-> rt.m])]
    /\ UNCHANGED <<globals, encVars, aucVars, trainVars, evalVars, storeVars, scaleVars>>

\* return comp
RunReturn ==
    /\ rt.pc = "preds"
    /\ rt.p > Len(Preds)
    /\ rt' = [rt EXCEPT !.pc = "done"]
    /\ UNCHANGED <<globals, encVars, aucVars, trainVars, evalVars, storeVars, scaleVars>>

NextRun == RunPredictor \/ RunAllele \/ RunCollect \/ RunReturn

SpecRun == InitRun /\ [][NextRun]_vars

\* ------------------------------------------ auc_score on the two scales
\* The same records scored as log50k values (test_predictor) and as IC50
\* values (evaluate_predictor).

\* log50k = 1-log(ic50) / log(50000), in thousandths, at the IC50 values (nM)
\* records are drawn from: the ends of the scale, two values of the sample of
\* the training data, and the value the cutoff 0.426 falls on.
Affinities ==
    <<[ic50 |-> 1, log50k |-> 1000], [ic50 |-> 32, log50k |-> 680],
      [ic50 |-> 498, log50k |-> 426], [ic50 |-> 20000, log50k |-> 85],
      [ic50 |-> 50000, log50k |-> 0]>>

to_target(ic50) == (CHOOSE p \in Range(Affinities) : p.ic50 = ic50).log50k

from_target(log50k) == (CHOOSE p \in Range(Affinities) : p.log50k = log50k).ic50

\* The IC50 values of the records scored: a binder, a record on the cutoff,
\* a non-binder.
Ic50Vals == {32, from_target(Cutoff), 20000}

InitScale ==
    /\ InitGlobals
    /\ rng = 0
    /\ EncIdle
    /\ AucIdle
    /\ TrainIdle
    /\ EvalIdle
    /\ StoreIdle
    /\ RunIdle
    /\ \E n \in 1..MaxRecs :
          \E y \in [1..n -> Ic50Vals], s \in [1..n -> Ic50Vals] :
              \E t \in {Ic50Cutoff, from_target(Cutoff)} :
                  ev = [pc |-> "scoring", ic50 |-> y, score |-> s, t |-> t,
                        labels |-> <<>>, log |-> NotCalled, ic |-> NotCalled]

\* auc = ep.auc_score(y_test,sc,cutoff=.426) on the log50k values of the
\* records; labels is auc_score's local true after the binarization.
ScoreLog50k ==
    /\ ev.pc = "scoring"
    /\ ev.log = NotCalled
    /\ LET y == Listed([i \in 1..Len(ev.ic50) |-> to_target(ev.ic50[i])])
           s == Listed([i \in 1..Len(ev.score) |-> to_target(ev.score[i])])
       IN  ev' = [ev EXCEPT !.labels = Binarize(y, Cutoff),
                            !.log = auc_score(y, s, Cutoff)]
    /\ UNCHANGED <<globals, encVars, aucVars, trainVars, evalVars, storeVars, runVars>>

\* auc = auc_score(x.ic50,x.score,cutoff=t) on the IC50 values of the records.
ScoreIc50 ==
    /\ ev.pc = "scoring"
    /\ ev.ic = NotCalled
    /\ ev' = [ev EXCEPT !.ic = auc_score(ev.ic50, ev.score, ev.t)]
    /\ UNCHANGED <<globals, encVars, aucVars, trainVars, evalVars, storeVars, runVars>>

NextScale == ScoreLog50k \/ ScoreIc50

SpecScale == InitScale /\ [][NextScale]_vars

\* ----------------------------------------------------- claims: the encoders

InAlphabet(p) == \A i \in 1..Len(p) : p[i] \in Range(CodesList)

\* codes.index(c), counted from 0.
CodeIndex(c) == (CHOOSE k \in 1..Len(CodesList) : CodesList[k] = c) - 1

Outcome(c) == [exc |-> c.exc, val |-> c.val]

\* C1: for a peptide of length L over the alphabet, one_hot_encode returns a
\* vector of length L*20 with exactly L ones, the one of position i at index
\* i*20 + codes.index(P[i]) (positions and indices counted from 0), and zeros
\* elsewhere.
C1_OneHotUnitVectors ==
    (call.fn = "one_hot_encode" /\ InAlphabet(call.arg)) =>
        LET L == Len(call.arg)
            n == Len(CodesList)
            Hot == {(i - 1) * n + CodeIndex(call.arg[i]) : i \in 1..L}
        IN  /\ call.exc = "none"
            /\ Len(call.val) = L * n
            /\ \A j \in 0..(L * n - 1) :
                  call.val[j + 1] = IF j \in Hot THEN 1 ELSE 0
            /\ Cardinality({j \in 1..Len(call.val) : call.val[j] = 1}) = L

\* C1's case: "YA" encoded, the last letter of the alphabet first.
C1_Witness ==
    /\ call.fn = "one_hot_encode"
    /\ call.arg = <<"Y", "A">>
    /\ Len(call.val) = 40
    /\ call.val[20] = 1
    /\ call.val[21] = 1

\* C6: one_hot_encode fails, and returns no vector, for every peptide with a
\* letter outside the alphabet.
C6_UnknownSymbolFails ==
    (call.fn = "one_hot_encode" /\ ~InAlphabet(call.arg)) => call.exc # "none"

\* The per-position feature dimension the data model gives each encoder kind.
PerPosition(fn) ==
    CASE fn = "one_hot_encode" -> 20
      [] fn = "nlf_encode" -> 19
      [] fn = "blosum_encode" -> 20

\* C8: whenever one_hot_encode, nlf_encode or blosum_encode returns a vector,
\* its length is L times the per-position dimension of the encoder kind.
C8_LengthByKind ==
    (call.fn \in RealEncoders /\ call.exc = "none") =>
        Len(call.val) = Len(call.arg) * PerPosition(call.fn)

\* C9: a later call of one_hot_encode, nlf_encode or blosum_encode on the
\* peptide under test has the outcome of the first one, whatever calls came
\* between, and the alphabet, the NLF table and the BLOSUM matrix are the ones
\* loaded at start.
C9_Deterministic ==
    /\ codes = CodesList
    /\ nlf = NlfTable
    /\ blosum = BlosumTable
    /\ call.repeat => Outcome(call) = seen[call.fn]

\* C9's case: a one-hot vector returned again after every real encoder has
\* been called on the peptide.
C9_Witness ==
    /\ call.repeat
    /\ call.fn = "one_hot_encode"
    /\ call.exc = "none"
    /\ \A e \in RealEncoders : seen[e] # NotSeen

\* C10: random_encode(p) returns one integer of 0..19 per position of p.
C10_RandomPerPosition ==
    call.fn = "random_encode" =>
        /\ Len(call.val) = Len(call.arg)
        /\ \A j \in 1..Len(call.val) : call.val[j] \in 0..(RandRange - 1)

\* ------------------------------------------------------ claims: auc_score

\* The records auc_score labels 1, and the others.
Positives == {i \in 1..Len(true) : true[i] <= Cutoff}

Negatives == {i \in 1..Len(true) : true[i] > Cutoff}

\* C3: on a perfectly separated dataset (both classes present, every record of
\* the class at or below the cutoff scored strictly lower than every record of
\* the other class) auc_score returns 1.0.
C3_PerfectSeparation ==
    ( /\ r # NotCalled
      /\ Positives # {}
      /\ Negatives # {}
      /\ \A i \in Positives : \A j \in Negatives : sc[i] < sc[j] )
    => r = Returned(Frac(1, 1))

\* The fraction of (positive, negative) pairs the raw score ranks correctly
\* (the positive scored lower), a tie counted one half.
PairFraction ==
    LET pairs == Positives \X Negatives
        right == Cardinality({q \in pairs : sc[q[1]] < sc[q[2]]})
        ties == Cardinality({q \in pairs : sc[q[1]] = sc[q[2]]})
    IN  Frac(2 * right + ties, 2 * Cardinality(pairs))

\* C4: with both classes present, auc_score returns the fraction of
\* (positive, negative) pairs ranked correctly by the raw predicted score:
\* the label is binarized, the score is not.
C4_RankingOfRawScore ==
    (r # NotCalled /\ Positives # {} /\ Negatives # {})
    => r = Returned(PairFraction)

\* ------------------------------------------------ claims: build_predictor

Fitted(out) == out.exc = "none" /\ out.val.fitted

\* The records of the table whose peptide passes validation.
ValidRecords == {i \in 1..Len(data) : InAlphabet(data[i].peptide)}

\* C2: build_predictor returns None, fitting nothing, when the table has fewer
\* than 100 records, and a fitted model when it has 100 or more.
C2_ThresholdAt100 ==
    reg # NotCalled =>
        /\ Len(data) < MinSamples => reg = Returned(None)
        /\ Len(data) >= MinSamples => Fitted(reg)

\* C7: when a table of 100 or more records holds a peptide with a letter
\* outside the alphabet, build_predictor is not aborted: it rejects that
\* peptide and fits the model on all the others.
C7_BatchNotAborted ==
    (reg # NotCalled /\ Len(data) >= MinSamples /\ ValidRecords # 1..Len(data)) =>
        /\ Fitted(reg)
        /\ reg.val.n_samples = Cardinality(ValidRecords)

\* ------------------------------------------------- claims: test_predictor

\* The measured values of a partition all fall on one side of the cutoff.
OneSided(y) == (\A k \in 1..Len(y) : y[k] <= Cutoff) \/ (\A k \in 1..Len(y) : y[k] > Cutoff)

\* C5: when the labels of the evaluated partition all fall on one side of the
\* cutoff, the pass of test_predictor's loop does not raise and its auc_score
\* is a defined value (a number of [0, 1], not not-a-number), and so is the
\* mean test_predictor returns.
C5_OneSidedPartitionDefined ==
    /\ (tp.pc = "loop" /\ tp.res # <<>> /\ OneSided(tp.y_test))
           => ~tp.res[Len(tp.res)].nan
    /\ tp.pc = "done" => ~tp.auc.nan

\* --------------------------------------------------- claims: train_models

\* C11: saving a model is atomic: after a crash at any point of train_models,
\* every file of the models directory is absent or complete (the previous
\* version or the new one), never a partly written one.
C11_AtomicSave ==
    tm.pc = "crashed" =>
        \A f \in DOMAIN models : ~models[f].exists \/ Complete(models[f])

\* What a stored model was built for.
Triple(m) == <<m.allele, m.length, m.encoder>>

\* C12: two models that differ in allele, peptide length or encoder kind are
\* never stored under the same file name: every model ever saved under a name,
\* by this run or an earlier one, was built for one and the same triple.
C12_KeyIdentifiesModel ==
    \A p \in tm.saved : \A q \in tm.saved :
        p.key = q.key => Triple(p.model) = Triple(q.model)

\* C12's case: train_models has saved a model for each of its two alleles,
\* one of them over the file an earlier run left.
C12_Witness ==
    /\ tm.pc = "done"
    /\ \A i \in 1..Len(Alleles) :
          \E p \in tm.saved : p.run = "this" /\ p.model.allele = Alleles[i]
    /\ \E p \in tm.saved : \E q \in tm.saved :
          p.key = q.key /\ p.run = "earlier" /\ q.run = "this"
    /\ Cardinality({p.key : p \in tm.saved}) = Len(Alleles)

\* The alleles train_models has saved a model for in this run.
SavedNow == {p.model.allele : p \in {q \in tm.saved : q.run = "this"}}

\* C15: when train_models has ended, an allele whose table is below the
\* minimum has no model written, and every other allele of the list has its
\* model, fitted on its table, complete on disk.
C15_InsufficientNonFatal ==
    tm.pc \in {"done", "raised"} =>
        \A i \in 1..Len(Alleles) :
            LET a == Alleles[i]
                f == models[fname(ModelsPath, a)]
            IN  IF Len(tables[a]) < MinSamples
                THEN a \notin SavedNow
                ELSE /\ a \in SavedNow
                     /\ Complete(f)
                     /\ f.model.allele = a
                     /\ f.model.reg.n_samples = Len(tables[a])

\* ------------------------------------------------------ claims: run_tests

\* What this predictor's evaluate_predictor call for allele a returned.
OwnResults(a) ==
    {rt.own[k].out.val : k \in {j \in 1..Len(rt.own) : rt.own[j].a = a /\ rt.own[j].out.exc = "none"}}

\* C13: the AUC run_tests prints for an allele, and the one it records in m,
\* is the value that allele's own evaluate_predictor call returned for the
\* predictor at hand, never one left from another allele.
C13_NoStaleAuc ==
    rt.pc \in {"preds", "alleles", "done"} =>
        /\ rt.out.shown => \E v \in OwnResults(rt.out.a) : v.auc = rt.out.auc
        /\ \A k \in 1..Len(rt.m) :
              \E v \in OwnResults(rt.m[k].allele) :
                  v.auc = rt.m[k].score /\ v.size = rt.m[k].size

\* C17: run_tests is never left by an exception, whichever calls of
\* evaluate_predictor raise, and when it returns comp holds one table per
\* predictor.
C17_RunsToCompletion ==
    /\ rt.pc # "raised"
    /\ rt.pc = "done" => Len(rt.comp) = Len(Preds)

\* ------------------------------------------ claims: the model of a repeat

\* The training partition of a pass: the records left when the test part is
\* taken out.
TrainSize == Len(tp.X) - TestSize(Len(tp.X))

\* C14: after every pass of test_predictor's loop the regressor is as a new
\* instance fitted on a training partition would be: its weights were
\* initialised anew and shaped by the one fit of this pass, nothing of the fit
\* of an earlier pass is left in them.
C14_FreshFitPerRepeat ==
    (tp.pc \in {"loop", "done"} /\ tp.res # <<>>) =>
        /\ Len(tp.reg.coefs) = 1
        /\ tp.reg.coefs[1].n_samples = TrainSize
        /\ tp.reg = reg_fit(MLPRegressor, tp.X, 1..TrainSize)

\* C14's case: the third pass is over, the regressor having been fitted in
\* each.
C14_Witness ==
    /\ tp.pc = "loop"
    /\ Len(tp.res) = Repeats
    /\ Len(tp.X) > 2
    /\ Len(tp.reg.coefs) = 1
    /\ tp.reg.coefs[1].fitted

\* ------------------------------------------------ claims: the two scales

\* C16: when auc_score binarizes log50k values with value <= cutoff, the
\* records labelled 1 are exactly the binding records: those whose IC50 is at
\* or below the IC50 the cutoff corresponds to.
C16_LabelOneIsBinding ==
    ev.log # NotCalled =>
        \A i \in 1..Len(ev.ic50) :
            ev.labels[i] = 1 <=> ev.ic50[i] <= from_target(Cutoff)

\* C18: auc_score has the same outcome on the log50k values of the records
\* with cutoff c as on their IC50 values with the cutoff c corresponds to,
\* records on the cutoff included.
C18_SameOnBothScales ==
    (ev.log # NotCalled /\ ev.ic # NotCalled /\ ev.t = from_target(Cutoff)) =>
        ev.log = ev.ic

====
